---- MODULE Spec2Model ----
(***************************************************************************)
(* A model of gnuplot_i (src/src/gnuplot_i.c, src/src/gnuplot_i.h): the    *)
(* session handle, the pipe to the gnuplot process and every line the      *)
(* library writes to it.                                                   *)
(*                                                                         *)
(* A C string is a sequence of one-character strings, so that lengths,     *)
(* buffer capacities and printf conversions are those of the code.  A      *)
(* pointer is a sequence of length 0 (NULL) or 1 (pointing at p[1]).  A    *)
(* double is a small natural number, printed as printf prints it.          *)
(*                                                                         *)
(* The caller is a process of its own: it makes a call (Call, which puts   *)
(* the function's name and arguments in call), the library function runs   *)
(* from entry to return as one action, and the caller takes the result     *)
(* (Return) before its next call.  Undefined behaviour (a write through a null pointer, a write   *)
(* past a local buffer, a conversion with no argument) is a choice among   *)
(* the outcomes a build can show: the process dies at once ("crash"), the  *)
(* write lands in memory nobody uses and the call goes on ("unnoticed"),   *)
(* or the call goes on and the process dies when it returns ("late", a     *)
(* smashed stack found by the return).                                     *)
(***************************************************************************)
EXTENDS Integers, Sequences, FiniteSets, TLC

VARIABLES
    session,    \* what the caller holds: "none", "open", "failed", "closed", "crashed"
    heap,       \* TRUE while the gnuplot_ctrl block is allocated
    pipe,       \* TRUE while the popen stream (and the child process) is open
    nplots,     \* gnuplot_ctrl.nplots
    pstyle,     \* gnuplot_ctrl.pstyle
    multiplot,  \* gnuplot_ctrl.multiplot
    pc,         \* the caller: "idle", "calling" (in call), "returned" (from call)
    call,       \* the call being made: its name and its arguments
    out,        \* the lines the call wrote to gnucmd, in order
    diag,       \* the lines the call wrote to stderr
    before,     \* the caller's note of the session as it was when the call was made
    curves,     \* history: curves whose header was sent since creation or reset
    fresh,      \* history: no plot function was called since gnuplot_resetplot:
                \* "no", or what the reset found: "empty" (nplots = 0), "erased"
    written     \* the memory the call wrote beside the session: the bytes put
                \* into its locals buf and tmp, and the caller's title array
                \* as the call leaves it

vars == <<session, heap, pipe, nplots, pstyle, multiplot, pc, call, out, diag, before, curves, fresh, written>>

----------------------------------------------------------------------------
(* Bounds of the model *)

\* the caller goes on plotting while nplots <= MaxPlots
MaxPlots == 1
\* sample arrays hold MaxN values
MaxN == 3
\* series of an ordinary multi-series call
MaxSeries == 3
\* series of a multi-series call with long titles
MaxFill == 18
\* an indeterminate int (a missing printf argument) is one of 0..MaxJunk
MaxJunk == 1

----------------------------------------------------------------------------
(* Program constants *)

\* char tmp[128]
TmpSize == 128
\* char buf[2048]
BufSize == 2048
\* the limit of strlen(buf) + strlen(tmp)
HeaderLimit == 2047

----------------------------------------------------------------------------
(* Pointers *)

NULL == <<>>

Ptr(v) == <<v>>

Deref(p) == p[1]

----------------------------------------------------------------------------
(* String literals of the source *)

str_plot == <<"p", "l", "o", "t">>
str_replot == <<"r", "e", "p", "l", "o", "t">>
str_none == <<"(", "n", "o", "n", "e", ")">>
str_e == <<"e">>

str_lines == <<"l", "i", "n", "e", "s">>
str_points == <<"p", "o", "i", "n", "t", "s">>
str_linespoints == <<"l", "i", "n", "e", "s", "p", "o", "i", "n", "t", "s">>
str_impulses == <<"i", "m", "p", "u", "l", "s", "e", "s">>
str_dots == <<"d", "o", "t", "s">>
str_steps == <<"s", "t", "e", "p", "s">>
str_errorbars == <<"e", "r", "r", "o", "r", "b", "a", "r", "s">>
str_boxes == <<"b", "o", "x", "e", "s">>
str_boxerrorbars == <<"b", "o", "x", "e", "r", "r", "o", "r", "b", "a", "r", "s">>

fmt_series == <<"%", "s", " ", "'", "-", "'", " ", "t", "i", "t", "l", "e", " ", "\"", "%", "s", "\"", " ", "w", "i", "t", "h", " ", "%", "s">>
fmt_next == <<",", " ", "'", "-", "'", " ", "t", "i", "t", "l", "e", " ", "\"", "%", "s", "\"", " ", "w", "i", "t", "h", " ", "%", "s">>
fmt_x == <<"%", "1", "1", "l", "e">>
fmt_xy == <<"%", "1", "1", "l", "e", " ", "%", "1", "1", "l", "e">>
fmt_slope == <<"%", "s", " ", "%", ".", "1", "8", "e", " ", "*", " ", "x", " ", "+", " ", "%", ".", "1", "8", "e", " ", "t", "i", "t", "l", "e", " ", "\"", "%", "s", "\"", " ", "w", "i", "t", "h", " ", "%", "s">>
fmt_equation == <<"%", "s", " ", "%", "s", " ", "t", "i", "t", "l", "e", " ", "\"", "%", "s", "\"", " ", "w", "i", "t", "h", " ", "%", "s">>
fmt_xlabel == <<"s", "e", "t", " ", "x", "l", "a", "b", "e", "l", " ", "\"", "%", "s", "\"">>
fmt_ylabel == <<"s", "e", "t", " ", "y", "l", "a", "b", "e", "l", " ", "\"", "%", "s", "\"">>

\* the names gnuplot_setstyle accepts
KnownStyles == {str_lines, str_points, str_linespoints, str_impulses, str_dots, str_steps, str_errorbars, str_boxes, str_boxerrorbars}

----------------------------------------------------------------------------
(* vfprintf / sprintf *)

Digit(n) == <<"0", "1", "2", "3", "4", "5", "6", "7", "8", "9">>[n + 1]

\* %d of an int in 0..99
Decimal(n) == IF n < 10 THEN <<Digit(n)>> ELSE <<Digit(n \div 10), Digit(n % 10)>>

Zeros(k) == [i \in 1..k |-> "0"]

\* %e of a double whose value is a natural number below ten, with the
\* given number of digits after the point: 4 prints as 4.000000e+00
Scientific(x, precision) == <<Digit(x), ".">> \o Zeros(precision) \o <<"e", "+", "0", "0">>

\* the characters that end a conversion specification
ConvChars == {"s", "d", "e", "%"}

\* one conversion: spec is the conversion character, flags the text
\* between '%' and it ("11l" of %11le, ".18" of %.18e)
Convert(spec, flags, arg) ==
    CASE spec = "s" -> arg
      [] spec = "d" -> Decimal(arg)
      [] spec = "e" -> Scientific(arg, IF Len(flags) > 0 /\ flags[1] = "." THEN 18 ELSE 6)

\* The text printf makes of fmt and args.  A conversion that finds no
\* argument left reads an indeterminate one: junk.  A '%' that no
\* conversion character follows is copied as it stands.
RECURSIVE Format(_, _, _)
Format(fmt, args, junk) ==
    IF \A k \in 1..Len(fmt) : fmt[k] # "%" THEN fmt
    ELSE LET i == CHOOSE k \in 1..Len(fmt) : fmt[k] = "%" /\ \A m \in 1..(k - 1) : fmt[m] # "%"
             after == {k \in (i + 1)..Len(fmt) : fmt[k] \in ConvChars}
         IN IF after = {} THEN fmt
            ELSE LET j == CHOOSE k \in after : \A m \in after : k <= m
                     pre == SubSeq(fmt, 1, i - 1)
                     rest == SubSeq(fmt, j + 1, Len(fmt))
                 IN IF fmt[j] = "%" THEN pre \o <<"%">> \o Format(rest, args, junk)
                    ELSE IF args = <<>> THEN pre \o Convert(fmt[j], SubSeq(fmt, i + 1, j - 1), junk) \o Format(rest, args, junk)
                    ELSE pre \o Convert(fmt[j], SubSeq(fmt, i + 1, j - 1), Head(args)) \o Format(rest, Tail(args), junk)

\* the number of conversions of fmt that take an argument
RECURSIVE Conversions(_)
Conversions(fmt) ==
    IF \A k \in 1..Len(fmt) : fmt[k] # "%" THEN 0
    ELSE LET i == CHOOSE k \in 1..Len(fmt) : fmt[k] = "%" /\ \A m \in 1..(k - 1) : fmt[m] # "%"
             after == {k \in (i + 1)..Len(fmt) : fmt[k] \in ConvChars}
         IN IF after = {} THEN 0
            ELSE LET j == CHOOSE k \in after : \A m \in after : k <= m
                 IN (IF fmt[j] = "%" THEN 0 ELSE 1) + Conversions(SubSeq(fmt, j + 1, Len(fmt)))

\* gnuplot_cmd: one formatted line, a newline, a flush
Line(fmt, args, junk) == [text |-> Format(fmt, args, junk), flushed |-> TRUE]

----------------------------------------------------------------------------
(* Inputs of the calls *)

str_bogus == <<"b", "o", "g", "u", "s">>
str_line == <<"l", "i", "n", "e">>
str_sq == <<"s", "q">>
str_pct == <<"%", "d">>
str_sinx == <<"s", "i", "n", "(", "x", ")">>
str_terminal == <<"s", "e", "t", " ", "t", "e", "r", "m", "i", "n", "a", "l", " ", "p", "n", "g">>
str_output == <<"s", "e", "t", " ", "o", "u", "t", "p", "u", "t", " ", "\"", "r", "a", "n", "d", "_", "%", "d", ".", "p", "n", "g", "\"">>

\* style names a caller asks for: the nine known ones, a prefix of one, an unknown one
StyleNames == KnownStyles \cup {str_bogus, str_line}

\* char* title
Titles == {NULL, Ptr(str_sq), Ptr(str_pct)}

\* double[MaxN]: x[i] = i and y[i] = i*i (mod 10), i = 0..MaxN-1
Xs == [j \in 1..MaxN |-> j - 1]
Ys == [j \in 1..MaxN |-> ((j - 1) * (j - 1)) % 10]

\* the point counts a caller passes with such an array
Counts == -1..MaxN

\* what undefined behaviour comes to
Outcomes == {"crash", "unnoticed", "late"}

----------------------------------------------------------------------------
(* The state before gnuplot_init is called *)

\* a call that has no buf and no tmp and is passed no title array
NoWrites == [buf |-> 0, tmp |-> 0, title |-> NULL]

Init ==
    /\ session = "none"
    /\ heap = FALSE
    /\ pipe = FALSE
    /\ nplots = 0
    /\ pstyle = <<>>
    /\ multiplot = "indeterminate"
    /\ pc = "idle"
    /\ call = [op |-> "none"]
    /\ out = <<>>
    /\ diag = <<>>
    /\ before = [op |-> "none"]
    /\ curves = 0
    /\ fresh = "no"
    /\ written = NoWrites

\* the function returns to the caller; plots: it is one of the plot functions
Returns(plots) ==
    /\ pc' = "returned"
    /\ fresh' = IF plots THEN "no" ELSE fresh
    /\ UNCHANGED <<call, before>>

----------------------------------------------------------------------------
(* Session state and style *)

StoredStyle_NoFallback(plot_style) == plot_style

StoredStyle_Prefix(plot_style) ==
    IF \E s \in KnownStyles : Len(plot_style) <= Len(s) /\ SubSeq(s, 1, Len(plot_style)) = plot_style
    THEN plot_style
    ELSE str_points

\* the style gnuplot_setstyle stores for plot_style
StoredStyle(plot_style) ==
    IF plot_style \notin KnownStyles THEN str_points ELSE plot_style

gnuplot_setstyle(plot_style) ==
    /\ pstyle' = StoredStyle(plot_style)
    /\ diag' = IF plot_style \notin KnownStyles THEN <<"warning: unknown requested style: using points">> ELSE <<>>
    /\ out' = <<>>
    /\ Returns(FALSE)
    /\ written' = NoWrites
    /\ UNCHANGED <<session, heap, pipe, nplots, multiplot, curves>>

gnuplot_init_NoFree(display, mem, spawn) ==
    /\ mem
    /\ out' = <<>>
    /\ nplots' = 0
    /\ pstyle' = StoredStyle(str_points)
    /\ multiplot' = "indeterminate"
    /\ curves' = 0
    /\ Returns(FALSE)
    /\ written' = NoWrites
    /\ heap' = TRUE
    /\ pipe' = spawn
    /\ session' = IF spawn THEN "open" ELSE "failed"
    /\ diag' = <<>>

\* display: DISPLAY is set; mem: malloc returns a block; spawn: popen
\* returns a stream. Nothing initialises the block's multiplot field: its
\* value stays indeterminate until it is written
gnuplot_init(display, mem, spawn) ==
    /\ out' = <<>>
    /\ nplots' = 0
    /\ pstyle' = StoredStyle(str_points)
    /\ multiplot' = "indeterminate"
    /\ curves' = 0
    /\ Returns(FALSE)
    /\ written' = NoWrites
    /\ LET warned == IF display THEN <<>> ELSE <<"cannot find DISPLAY variable: is it set?">>
           failed == <<"error starting gnuplot, is gnuplot or gnuplot.exe in your path?">>
       IN IF mem
          THEN /\ heap' = spawn
               /\ pipe' = spawn
               /\ session' = IF spawn THEN "open" ELSE "failed"
               /\ diag' = IF spawn THEN warned ELSE warned \o failed
          ELSE \* handle->nplots = 0 writes through the null pointer malloc returned
               /\ heap' = FALSE
               /\ \E ub \in {"crash", "unnoticed"} :
                     IF ub = "unnoticed"
                     THEN /\ pipe' = spawn
                          /\ session' = "failed"
                          /\ diag' = IF spawn THEN warned ELSE warned \o failed
                     ELSE /\ pipe' = FALSE
                          /\ session' = "crashed"
                          /\ diag' = warned

\* status: what pclose returns, -1 when it fails; the stream is closed
\* either way
gnuplot_close(status) ==
    /\ pipe' = FALSE
    /\ heap' = (status = -1)
    /\ diag' = IF status = -1 THEN <<"problem closing communication to gnuplot">> ELSE <<>>
    /\ session' = "closed"
    /\ out' = <<>>
    /\ Returns(FALSE)
    /\ written' = NoWrites
    /\ UNCHANGED <<nplots, pstyle, multiplot, curves>>

\* a raw command of the caller, with its int arguments
gnuplot_cmd(cmd, args) ==
    /\ out' = <<Line(cmd, args, 0)>>
    /\ diag' = <<>>
    /\ Returns(FALSE)
    /\ written' = NoWrites
    /\ UNCHANGED <<session, heap, pipe, nplots, pstyle, multiplot, curves>>

gnuplot_set_xlabel(label) ==
    /\ out' = <<Line(fmt_xlabel, <<label>>, 0)>>
    /\ diag' = <<>>
    /\ Returns(FALSE)
    /\ written' = NoWrites
    /\ UNCHANGED <<session, heap, pipe, nplots, pstyle, multiplot, curves>>

gnuplot_set_ylabel_AsX(label) == gnuplot_set_xlabel(label)

gnuplot_set_ylabel(label) ==
    /\ out' = <<Line(fmt_ylabel, <<label>>, 0)>>
    /\ diag' = <<>>
    /\ Returns(FALSE)
    /\ written' = NoWrites
    /\ UNCHANGED <<session, heap, pipe, nplots, pstyle, multiplot, curves>>

gnuplot_resetplot_Keep ==
    /\ UNCHANGED nplots
    /\ curves' = 0
    /\ out' = <<>>
    /\ diag' = <<>>
    /\ pc' = "returned"
    /\ written' = NoWrites
    /\ fresh' = IF nplots > 0 THEN "erased" ELSE "empty"
    /\ UNCHANGED <<call, before, session, heap, pipe, pstyle, multiplot>>

gnuplot_resetplot_Defaults ==
    /\ nplots' = 0
    /\ curves' = 0
    /\ pstyle' = str_points
    /\ out' = <<>>
    /\ diag' = <<>>
    /\ pc' = "returned"
    /\ written' = NoWrites
    /\ fresh' = IF nplots > 0 THEN "erased" ELSE "empty"
    /\ UNCHANGED <<call, before, session, heap, pipe, multiplot>>

gnuplot_resetplot ==
    /\ nplots' = 0
    /\ curves' = 0
    /\ out' = <<>>
    /\ diag' = <<>>
    /\ pc' = "returned"
    /\ written' = NoWrites
    /\ fresh' = IF nplots > 0 THEN "erased" ELSE "empty"
    /\ UNCHANGED <<call, before, session, heap, pipe, pstyle, multiplot>>

----------------------------------------------------------------------------
(* Single curves *)

PlotCmd_Inverted(n) == IF n > 0 THEN str_plot ELSE str_replot

\* char const* cmd = (handle->nplots > 0) ? "replot" : "plot";
PlotCmd(n) == IF n > 0 THEN str_replot ELSE str_plot

TitleOf_Empty(title) == IF title = NULL THEN <<>> ELSE Deref(title)

\* title = (title == NULL) ? "(none)" : title;
TitleOf(title) == IF title = NULL THEN str_none ELSE Deref(title)

RecordsX_OneShort(d, n) == [i \in 1..(n - 1) |-> Line(fmt_x, <<d[i]>>, 0)]

\* for (i = 0; i < n; i++) gnuplot_cmd(handle, "%11le", d[i]);
RecordsX(d, n) == [i \in 1..n |-> Line(fmt_x, <<d[i]>>, 0)]

\* for (i = 0; i < n; i++) gnuplot_cmd(handle, "%11le %11le", x[i], y[i]);
RecordsXY(x, y, n) == [i \in 1..n |-> Line(fmt_xy, <<x[i], y[i]>>, 0)]

\* gnuplot_cmd(handle, "e");
EndOfData == Line(str_e, <<>>, 0)

\* the argument check of gnuplot_plot_x
plot_x_Valid(d, n) == ~(d = NULL \/ n < 1)

gnuplot_plot_x(d, n, title) ==
    /\ diag' = <<>>
    /\ Returns(TRUE)
    /\ written' = NoWrites
    /\ IF ~plot_x_Valid(d, n)
       THEN /\ out' = <<>>
            /\ UNCHANGED <<nplots, curves>>
       ELSE /\ out' = <<Line(fmt_series, <<PlotCmd(nplots), TitleOf(title), pstyle>>, 0)>>
                      \o RecordsX(Deref(d), n) \o <<EndOfData>>
            /\ nplots' = nplots + 1
            /\ curves' = curves + 1
    /\ UNCHANGED <<session, heap, pipe, pstyle, multiplot>>

\* the argument check of gnuplot_plot_xy
plot_xy_Valid(x, y, n) == ~(x = NULL \/ y = NULL \/ n < 1)

gnuplot_plot_xy(x, y, n, title) ==
    /\ diag' = <<>>
    /\ Returns(TRUE)
    /\ written' = NoWrites
    /\ IF ~plot_xy_Valid(x, y, n)
       THEN /\ out' = <<>>
            /\ UNCHANGED <<nplots, curves>>
       ELSE /\ out' = <<Line(fmt_series, <<PlotCmd(nplots), TitleOf(title), pstyle>>, 0)>>
                      \o RecordsXY(Deref(x), Deref(y), n) \o <<EndOfData>>
            /\ nplots' = nplots + 1
            /\ curves' = curves + 1
    /\ UNCHANGED <<session, heap, pipe, pstyle, multiplot>>

gnuplot_plot_slope(a, b, title) ==
    /\ diag' = <<>>
    /\ Returns(TRUE)
    /\ written' = NoWrites
    /\ out' = <<Line(fmt_slope, <<PlotCmd(nplots), a, b, TitleOf(title), pstyle>>, 0)>>
    /\ nplots' = nplots + 1
    /\ curves' = curves + 1
    /\ UNCHANGED <<session, heap, pipe, pstyle, multiplot>>

gnuplot_plot_equation_WithData(equation, title) ==
    /\ diag' = <<>>
    /\ Returns(TRUE)
    /\ written' = NoWrites
    /\ out' = <<Line(fmt_equation, <<PlotCmd(nplots), equation, TitleOf(title), pstyle>>, 0), EndOfData>>
    /\ nplots' = nplots + 1
    /\ curves' = curves + 1
    /\ UNCHANGED <<session, heap, pipe, pstyle, multiplot>>

gnuplot_plot_equation(equation, title) ==
    /\ diag' = <<>>
    /\ Returns(TRUE)
    /\ written' = NoWrites
    /\ out' = <<Line(fmt_equation, <<PlotCmd(nplots), equation, TitleOf(title), pstyle>>, 0)>>
    /\ nplots' = nplots + 1
    /\ curves' = curves + 1
    /\ UNCHANGED <<session, heap, pipe, pstyle, multiplot>>

----------------------------------------------------------------------------
(* Several curves in one call *)

Max(a, b) == IF a >= b THEN a ELSE b

\* title[i] = (title[i] == NULL) ? "(none)" : title[i], for i < l;
\* with title == NULL the same loop stores "(none)" through the null pointer.
\* The function is not told how many titles the array holds: beyond is what
\* the loop finds in title[i] past the array's end
SeriesTitles(title, l, beyond) ==
    IF title = NULL THEN [i \in 1..l |-> str_none]
    ELSE [i \in 1..l |-> TitleOf(IF i <= Len(Deref(title)) THEN Deref(title)[i] ELSE beyond)]

\* sprintf(buf, "%s '-' title \"%s\" with %s", cmd, title[0], handle->pstyle);
FirstClause(cmd, t, style) == Format(fmt_series, <<cmd, t, style>>, 0)

\* sprintf(tmp, ", '-' title \"%s\" with %s", title[i], handle->pstyle);
NextClause(t, style) == Format(fmt_next, <<t, style>>, 0)

\* if (strlen(buf) + strlen(tmp) < 2047)
Fits(buf, tmp) == Len(buf) + Len(tmp) < HeaderLimit

JoinClauses_Truncate(buf, titles, style, i, l) == [complete |-> TRUE, buf |-> buf, longest |-> 0]

\* The loop over the series 1..l-1, from series i on: buf with each clause
\* appended while it fits.  complete: the loop ran to its end (no return);
\* longest: the longest text sprintf wrote to tmp.
RECURSIVE JoinClauses(_, _, _, _, _)
JoinClauses(buf, titles, style, i, l) ==
    IF i >= l THEN [complete |-> TRUE, buf |-> buf, longest |-> 0]
    ELSE LET tmp == NextClause(titles[i + 1], style)
         IN IF Fits(buf, tmp)
            THEN LET r == JoinClauses(buf \o tmp, titles, style, i + 1, l)
                 IN [r EXCEPT !.longest = Max(Len(tmp), r.longest)]
            ELSE [complete |-> FALSE, buf |-> buf, longest |-> Len(tmp)]

\* The header a multi-series call builds in buf.  overflow: a sprintf wrote
\* past the end of buf or of tmp; nullwrite: the titles were stored
\* through a null title pointer; overread: titles were read and stored past
\* the end of the title array.
MultiHeader(n, style, title, l, beyond) ==
    LET titles == SeriesTitles(title, l, beyond)
        first == FirstClause(PlotCmd(n), titles[1], style)
        r == JoinClauses(first, titles, style, 1, l)
    IN [complete |-> r.complete,
        buf |-> r.buf,
        overflow |-> (Len(first) + 1 > BufSize \/ r.longest + 1 > TmpSize),
        nullwrite |-> (title = NULL),
        overread |-> (title # NULL /\ Len(Deref(title)) < l),
        written |-> [buf |-> Max(Len(first), Len(r.buf)) + 1,
                     tmp |-> IF l > 1 THEN r.longest + 1 ELSE 0,
                     title |-> IF title = NULL THEN NULL
                               ELSE Ptr([i \in 1..Len(Deref(title)) |-> IF i <= l THEN Ptr(titles[i]) ELSE Deref(title)[i]])]]

DataBlocks_FirstOnly(blocks, i) == blocks[1] \o <<EndOfData>>

\* the data of the series i..l, each followed by its end-of-data line
RECURSIVE DataBlocks(_, _)
DataBlocks(blocks, i) ==
    IF i > Len(blocks) THEN <<>> ELSE blocks[i] \o <<EndOfData>> \o DataBlocks(blocks, i + 1)

Advance_ByOne(n, l) == n + 1

Advance_None(n, l) == n

\* handle->nplots += l;
Advance(n, l) == n + l

\* What the three multi-series functions share, from the choice of cmd to
\* the return: blocks are the records of the l series.
EmitSeries(l, title, blocks) ==
    \E beyond \in (IF title # NULL /\ Len(Deref(title)) < l THEN Titles ELSE {NULL}) :
    LET h == MultiHeader(nplots, pstyle, title, l, beyond)
    IN \E ub \in (IF h.overflow \/ h.nullwrite \/ h.overread THEN Outcomes ELSE {"unnoticed"}) :
       \E junk \in (IF Conversions(h.buf) > 0 THEN 0..MaxJunk ELSE {0}) :
          IF (h.nullwrite /\ ub # "unnoticed") \/ ((h.overflow \/ h.overread) /\ ub = "crash")
          THEN /\ session' = "crashed"
               /\ out' = <<>>
               /\ written' = IF h.nullwrite THEN NoWrites ELSE h.written
               /\ UNCHANGED <<nplots, curves>>
          ELSE /\ session' = IF (h.overflow \/ h.overread) /\ ub = "late" THEN "crashed" ELSE session
               /\ written' = h.written
               /\ IF h.complete
                  THEN /\ out' = <<Line(h.buf, <<>>, junk)>> \o DataBlocks(blocks, 1)
                       /\ nplots' = Advance(nplots, l)
                       /\ curves' = curves + l
                  ELSE /\ out' = <<>>
                       /\ UNCHANGED <<nplots, curves>>

multi_x_Valid_ZeroPoints(d, n, l) ==
    /\ ~(d = NULL \/ n < 0 \/ l < 1)
    /\ \A i \in 1..l : Deref(d)[i] # NULL

\* the argument check of gnuplot_plot_multi_x
multi_x_Valid(d, n, l) ==
    /\ ~(d = NULL \/ n < 1 \/ l < 1)
    /\ \A i \in 1..l : Deref(d)[i] # NULL

gnuplot_plot_multi_x(d, n, l, title) ==
    /\ diag' = <<>>
    /\ Returns(TRUE)
    /\ IF ~multi_x_Valid(d, n, l)
       THEN /\ out' = <<>>
            /\ written' = [NoWrites EXCEPT !.title = title]
            /\ UNCHANGED <<session, nplots, curves>>
       ELSE EmitSeries(l, title, [i \in 1..l |-> RecordsX(Deref(Deref(d)[i]), n)])
    /\ UNCHANGED <<heap, pipe, pstyle, multiplot>>

\* the argument check of gnuplot_plot_x_multi_y
x_multi_y_Valid(x, y, n, l) ==
    /\ ~(x = NULL \/ y = NULL \/ n < 1 \/ l < 1)
    /\ \A i \in 1..l : Deref(y)[i] # NULL

gnuplot_plot_x_multi_y(x, y, n, l, title) ==
    /\ diag' = <<>>
    /\ Returns(TRUE)
    /\ IF ~x_multi_y_Valid(x, y, n, l)
       THEN /\ out' = <<>>
            /\ written' = [NoWrites EXCEPT !.title = title]
            /\ UNCHANGED <<session, nplots, curves>>
       ELSE EmitSeries(l, title, [i \in 1..l |-> RecordsXY(Deref(x), Deref(Deref(y)[i]), n)])
    /\ UNCHANGED <<heap, pipe, pstyle, multiplot>>

\* the argument check of gnuplot_plot_multi_xy
multi_xy_Valid(x, y, n, l) ==
    /\ ~(x = NULL \/ y = NULL \/ n = NULL \/ l < 1)
    /\ \A i \in 1..l : ~(Deref(x)[i] = NULL \/ Deref(y)[i] = NULL \/ Deref(n)[i] < 1)

gnuplot_plot_multi_xy(x, y, n, l, title) ==
    /\ diag' = <<>>
    /\ Returns(TRUE)
    /\ IF ~multi_xy_Valid(x, y, n, l)
       THEN /\ out' = <<>>
            /\ written' = [NoWrites EXCEPT !.title = title]
            /\ UNCHANGED <<session, nplots, curves>>
       ELSE EmitSeries(l, title, [i \in 1..l |-> RecordsXY(Deref(Deref(x)[i]), Deref(Deref(y)[i]), Deref(n)[i])])
    /\ UNCHANGED <<heap, pipe, pstyle, multiplot>>

----------------------------------------------------------------------------
(* Multiplot: gnuplot_i.h declares gnuplot_multiplot and documents it; the  *)
(* flag is switched and "set multiplot <opt>" or "unset multiplot" is sent  *)

str_set_multiplot == <<"s", "e", "t", " ", "m", "u", "l", "t", "i", "p", "l", "o", "t", " ", "%", "s">>
str_unset_multiplot == <<"u", "n", "s", "e", "t", " ", "m", "u", "l", "t", "i", "p", "l", "o", "t">>

\* held: what the read of the flag gives, either value while the flag is
\* indeterminate
gnuplot_multiplot(opt) ==
    /\ \E held \in (IF multiplot = "indeterminate" THEN BOOLEAN ELSE {multiplot = "on"}) :
          /\ multiplot' = IF held THEN "off" ELSE "on"
          /\ out' = IF held THEN <<Line(str_unset_multiplot, <<>>, 0)>> ELSE <<Line(str_set_multiplot, <<opt>>, 0)>>
    /\ diag' = <<>>
    /\ Returns(FALSE)
    /\ written' = NoWrites
    /\ UNCHANGED <<session, heap, pipe, nplots, pstyle, curves>>

----------------------------------------------------------------------------
(* The caller *)

\* a title of k characters
LongTitle(k) == [i \in 1..k |-> "t"]

\* the longest title whose clause fits tmp with every style
TitleFit == TmpSize - 1 - Len(NextClause(<<>>, str_boxerrorbars))

\* l and title of the calls with long titles: a clause that just fits tmp
\* and one that is one character too long for it with the longest style
\* name, in headers of two series and of about HeaderLimit characters; and
\* a first clause that alone is too long for buf
LongInputs ==
    {<<l, LongTitle(k)>> : l \in {2} \cup ((MaxFill - 2)..MaxFill), k \in {TitleFit, TitleFit + 1}}
    \cup {<<l, LongTitle(BufSize)>> : l \in {1, 2}}

\* char** title for l series: none, one title for all, a missing first
\* one, and an array that holds one title fewer than there are series
TitleArrays(l) ==
    {NULL} \cup {Ptr([i \in 1..l |-> t]) : t \in Titles}
           \cup {Ptr([i \in 1..l |-> IF i = 1 THEN NULL ELSE Ptr(str_sq)])}
           \cup (IF l > 1 THEN {Ptr([i \in 1..(l - 1) |-> Ptr(str_sq)])} ELSE {})

\* double** of l arrays of data; outer: the pointer itself is null; first,
\* last: that array is null
Rows(l, outer, first, last, data) ==
    IF outer THEN NULL
    ELSE Ptr([i \in 1..Max(l, 1) |-> IF (first /\ i = 1) \/ (last /\ i = Max(l, 1)) THEN NULL ELSE Ptr(data)])

\* int* n of gnuplot_plot_multi_xy: n everywhere, or lengths 1, 2, ... that
\* differ from series to series when n is MaxN; a non-positive n is passed
\* for the last series alone
CountsArray(l, n, null) ==
    IF null THEN NULL
    ELSE Ptr([i \in 1..Max(l, 1) |-> IF n = MaxN THEN ((i - 1) % MaxN) + 1
                                     ELSE IF n < 1 /\ i < Max(l, 1) THEN 1 ELSE n])

\* l, n and title of a multi-series call whose data pointers are all set:
\* every title array with series of one point, series of MaxN points with
\* a title for each
SeriesInputs ==
    UNION {{[l |-> l, n |-> 1, title |-> t] : t \in TitleArrays(l)} : l \in 1..MaxSeries}
    \cup {[l |-> l, n |-> MaxN, title |-> Ptr([i \in 1..l |-> Ptr(str_sq)])] : l \in 1..MaxSeries}
    \cup {[l |-> in[1], n |-> 1, title |-> Ptr([i \in 1..in[1] |-> Ptr(in[2])])] : in \in LongInputs}

\* l and n of a multi-series call with a non-positive count
BadCounts == {<<-1, 1>>, <<0, 1>>, <<2, -1>>, <<2, 0>>}

TwoTitles == Ptr(<<Ptr(str_sq), Ptr(str_sq)>>)

Op(name, args) == [op |-> name, args |-> args]

InitCalls == {Op("init", [display |-> e, mem |-> m, spawn |-> s]) : e \in BOOLEAN, m \in BOOLEAN, s \in BOOLEAN}

StateCalls ==
    {Op("close", [status |-> s]) : s \in {-1, 0}}
    \cup {Op("setstyle", [plot_style |-> s]) : s \in StyleNames}
    \cup {Op("cmd", [cmd |-> str_terminal, args |-> <<>>]), Op("cmd", [cmd |-> str_output, args |-> <<5>>])}
    \cup {Op("set_xlabel", [label |-> t]) : t \in {<<"x">>, str_pct}}
    \cup {Op("set_ylabel", [label |-> t]) : t \in {<<"y">>, str_pct}}
    \cup {Op("resetplot", [handle |-> TRUE]), Op("multiplot", [opt |-> <<>>])}

CurveCalls ==
    {Op("plot_x", [d |-> Ptr(Ys), n |-> n, title |-> t]) : n \in Counts, t \in Titles}
    \cup {Op("plot_x", [d |-> NULL, n |-> MaxN, title |-> t]) : t \in Titles}
    \cup {Op("plot_xy", [x |-> Ptr(Xs), y |-> Ptr(Ys), n |-> n, title |-> t]) : n \in Counts, t \in Titles}
    \cup {Op("plot_xy", [x |-> x, y |-> y, n |-> MaxN, title |-> Ptr(str_sq)]) : x \in {NULL, Ptr(Xs)}, y \in {NULL, Ptr(Ys)}}
    \cup {Op("plot_slope", [a |-> a, b |-> 0, title |-> t]) : a \in {1, 2}, t \in Titles}
    \cup {Op("plot_equation", [equation |-> str_sinx, title |-> t]) : t \in Titles}

MultiXCalls ==
    {Op("plot_multi_x", [d |-> Rows(in.l, FALSE, FALSE, FALSE, Ys), n |-> in.n, l |-> in.l, title |-> in.title]) : in \in SeriesInputs}
    \cup {Op("plot_multi_x", [d |-> Rows(c[1], FALSE, FALSE, FALSE, Ys), n |-> c[2], l |-> c[1], title |-> TwoTitles]) : c \in BadCounts}
    \cup {Op("plot_multi_x", [d |-> Rows(2, f = 1, f = 2, f = 3, Ys), n |-> 1, l |-> 2, title |-> TwoTitles]) : f \in 1..3}

XMultiYCalls ==
    {Op("plot_x_multi_y", [x |-> Ptr(Xs), y |-> Rows(in.l, FALSE, FALSE, FALSE, Ys), n |-> in.n, l |-> in.l, title |-> in.title]) : in \in SeriesInputs}
    \cup {Op("plot_x_multi_y", [x |-> Ptr(Xs), y |-> Rows(c[1], FALSE, FALSE, FALSE, Ys), n |-> c[2], l |-> c[1], title |-> TwoTitles]) : c \in BadCounts}
    \cup {Op("plot_x_multi_y", [x |-> IF f = 0 THEN NULL ELSE Ptr(Xs), y |-> Rows(2, f = 1, f = 2, f = 3, Ys), n |-> 1, l |-> 2, title |-> TwoTitles]) : f \in 0..3}

MultiXYCalls ==
    {Op("plot_multi_xy", [x |-> Rows(in.l, FALSE, FALSE, FALSE, Xs), y |-> Rows(in.l, FALSE, FALSE, FALSE, Ys), n |-> CountsArray(in.l, in.n, FALSE), l |-> in.l, title |-> in.title]) : in \in SeriesInputs}
    \cup {Op("plot_multi_xy", [x |-> Rows(c[1], FALSE, FALSE, FALSE, Xs), y |-> Rows(c[1], FALSE, FALSE, FALSE, Ys), n |-> CountsArray(c[1], c[2], FALSE), l |-> c[1], title |-> TwoTitles]) : c \in BadCounts}
    \cup {Op("plot_multi_xy", [x |-> Rows(2, f = 1, f = 2, f = 3, Xs), y |-> Rows(2, f = 4, f = 5, f = 6, Ys), n |-> CountsArray(2, 1, f = 0), l |-> 2, title |-> TwoTitles]) : f \in 0..6}

PlotOps == {"plot_x", "plot_xy", "plot_multi_x", "plot_x_multi_y", "plot_multi_xy", "plot_slope", "plot_equation"}

\* The caller makes a call: gnuplot_init first, then any call on the open
\* session.  Once nplots is above MaxPlots the caller only resets or closes.
Call(c) ==
    /\ pc = "idle"
    /\ IF c.op = "init" THEN session = "none" ELSE session = "open"
    /\ c.op \notin {"init", "resetplot", "close"} => nplots <= MaxPlots
    /\ pc' = "calling"
    /\ call' = c
    /\ before' = [op |-> c.op, nplots |-> nplots, pstyle |-> pstyle, multiplot |-> multiplot, curves |-> curves, fresh |-> fresh]
    /\ UNCHANGED <<session, heap, pipe, nplots, pstyle, multiplot, out, diag, curves, fresh, written>>

\* The caller has the result and what was written, and goes on.
Return ==
    /\ pc = "returned"
    /\ pc' = "idle"
    /\ call' = [op |-> "none"]
    /\ before' = [op |-> "none"]
    /\ out' = <<>>
    /\ diag' = <<>>
    /\ written' = NoWrites
    /\ UNCHANGED <<session, heap, pipe, nplots, pstyle, multiplot, curves, fresh>>

\* the caller is in a call of the function named
In(name) == pc = "calling" /\ call.op = name

Next ==
    \/ \E c \in InitCalls : Call(c)
    \/ \E c \in StateCalls : Call(c)
    \/ \E c \in CurveCalls : Call(c)
    \/ \E c \in MultiXCalls : Call(c)
    \/ \E c \in XMultiYCalls : Call(c)
    \/ \E c \in MultiXYCalls : Call(c)
    \/ Return
    \/ In("init") /\ gnuplot_init(call.args.display, call.args.mem, call.args.spawn)
    \/ In("close") /\ gnuplot_close(call.args.status)
    \/ In("setstyle") /\ gnuplot_setstyle(call.args.plot_style)
    \/ In("cmd") /\ gnuplot_cmd(call.args.cmd, call.args.args)
    \/ In("set_xlabel") /\ gnuplot_set_xlabel(call.args.label)
    \/ In("set_ylabel") /\ gnuplot_set_ylabel(call.args.label)
    \/ In("resetplot") /\ gnuplot_resetplot
    \/ In("multiplot") /\ gnuplot_multiplot(call.args.opt)
    \/ In("plot_x") /\ gnuplot_plot_x(call.args.d, call.args.n, call.args.title)
    \/ In("plot_xy") /\ gnuplot_plot_xy(call.args.x, call.args.y, call.args.n, call.args.title)
    \/ In("plot_multi_x") /\ gnuplot_plot_multi_x(call.args.d, call.args.n, call.args.l, call.args.title)
    \/ In("plot_x_multi_y") /\ gnuplot_plot_x_multi_y(call.args.x, call.args.y, call.args.n, call.args.l, call.args.title)
    \/ In("plot_multi_xy") /\ gnuplot_plot_multi_xy(call.args.x, call.args.y, call.args.n, call.args.l, call.args.title)
    \/ In("plot_slope") /\ gnuplot_plot_slope(call.args.a, call.args.b, call.args.title)
    \/ In("plot_equation") /\ gnuplot_plot_equation(call.args.equation, call.args.title)

Spec == Init /\ [][Next]_vars

----------------------------------------------------------------------------
(* Properties: what they read *)

\* the call named by one of ops has returned
Returned(ops) == pc = "returned" /\ call.op \in ops

\* the five functions that send inline data, and the three of them that
\* send several series
SeriesOps == {"plot_x", "plot_xy", "plot_multi_x", "plot_x_multi_y", "plot_multi_xy"}
MultiOps == {"plot_multi_x", "plot_x_multi_y", "plot_multi_xy"}

StartsWith(s, p) == Len(s) >= Len(p) /\ SubSeq(s, 1, Len(p)) = p

\* the verb a line starts with
Verb(text) ==
    IF StartsWith(text, <<"r", "e", "p", "l", "o", "t", " ">>) THEN "replot"
    ELSE IF StartsWith(text, <<"p", "l", "o", "t", " ">>) THEN "plot"
    ELSE "other"

\* how often pat occurs in text
Occurrences(text, pat) ==
    Cardinality({i \in 1..(Len(text) - Len(pat) + 1) : text[i] = pat[1] /\ SubSeq(text, i, i + Len(pat) - 1) = pat})

\* the opening of an inline-data clause, '-' title ", and the same after ", "
ClauseOpening == <<"'", "-", "'", " ", "t", "i", "t", "l", "e", " ", "\"">>
ClauseJoined == <<",", " ">> \o ClauseOpening

Digits == {"0", "1", "2", "3", "4", "5", "6", "7", "8", "9"}

\* a number as "%11le" prints one, from position i of text on: d.dddddde+dd
IsNumberAt(text, i) ==
    /\ Len(text) >= i + 11
    /\ text[i] \in Digits /\ text[i + 1] = "."
    /\ \A k \in (i + 2)..(i + 7) : text[k] \in Digits
    /\ text[i + 8] = "e" /\ text[i + 9] = "+"
    /\ text[i + 10] \in Digits /\ text[i + 11] \in Digits

\* a data record of k numbers, a space between two
IsRecord(text, k) ==
    /\ Len(text) = 13 * k - 1
    /\ \A j \in 0..(k - 1) : IsNumberAt(text, 13 * j + 1) /\ (j > 0 => text[13 * j] = " ")

\* the data pointers or counts of a series call are unusable:
\* a null pointer (outer or one of the l inner ones) or a count below one
BadData(c) ==
    LET a == c.args
    IN CASE c.op = "plot_x" -> a.d = NULL \/ a.n < 1
         [] c.op = "plot_xy" -> a.x = NULL \/ a.y = NULL \/ a.n < 1
         [] c.op = "plot_multi_x" -> a.d = NULL \/ a.n < 1 \/ a.l < 1 \/ \E i \in 1..a.l : a.d[1][i] = NULL
         [] c.op = "plot_x_multi_y" -> a.x = NULL \/ a.y = NULL \/ a.n < 1 \/ a.l < 1 \/ \E i \in 1..a.l : a.y[1][i] = NULL
         [] c.op = "plot_multi_xy" -> a.x = NULL \/ a.y = NULL \/ a.n = NULL \/ a.l < 1
                                      \/ \E i \in 1..a.l : a.x[1][i] = NULL \/ a.y[1][i] = NULL \/ a.n[1][i] < 1

\* the title array of a multi-series call holds a title for every series
TitlesGiven(c) == c.args.title # NULL /\ Len(c.args.title[1]) = c.args.l

\* the length of the text of title i of a multi-series call
TitleLength(c, i) == IF c.args.title[1][i] = NULL THEN 6 ELSE Len(c.args.title[1][i][1])

RECURSIVE TitleLengths(_, _)
TitleLengths(c, i) == IF i = 0 THEN 0 ELSE TitleLength(c, i) + TitleLengths(c, i - 1)

\* the length of the header of a multi-series call with a title array: the
\* verb and a space, l clauses of 18 characters beside title and style,
\* l - 1 joints of two characters
HeaderLength(c, count, style) ==
    (IF count > 0 THEN 6 ELSE 4) + 1 + c.args.l * (11 + 7 + Len(style)) + 2 * (c.args.l - 1) + TitleLengths(c, c.args.l)

----------------------------------------------------------------------------
(* Properties *)

\* C1: with multiplot not switched on, the header a plot function sends starts with
\* "replot" if a curve's header was sent since the session was created or
\* last reset, and with "plot" if none was.
C1_VerbFollowsHistory ==
    (Returned(PlotOps) /\ before.multiplot # "on" /\ out # <<>>)
        => Verb(out[1].text) = IF before.curves > 0 THEN "replot" ELSE "plot"

\* a second gnuplot_plot_x has sent "replot"
C1_Witness ==
    /\ Returned({"plot_x"}) /\ before.multiplot = "off" /\ before.curves = 1
    /\ out # <<>> /\ Verb(out[1].text) = "replot"

\* C2: the first plot function called after gnuplot_resetplot sends "plot",
\* whatever the reset found.
C2_PlotAfterReset ==
    (Returned(PlotOps) /\ before.fresh # "no" /\ out # <<>>) => Verb(out[1].text) = "plot"

\* gnuplot_plot_x_multi_y after a reset that erased curves
C2_Witness ==
    /\ Returned({"plot_x_multi_y"}) /\ before.fresh = "erased"
    /\ out # <<>> /\ Verb(out[1].text) = "plot"

\* C3: while gnuplot_multiplot has the multiplot flag on, every header a plot function sends
\* starts with "plot".
C3_PlotInMultiplot ==
    (Returned(PlotOps) /\ before.multiplot = "on" /\ out # <<>>) => Verb(out[1].text) = "plot"

\* C4, as claimed: a multi-series call with valid data and l >= 1 (here with
\* a title array whose every clause fits tmp, so that no buffer is overrun)
\* raises the plot count by l and sends a header of l clauses joined by
\* ", ".
C4_AsClaimed ==
    (/\ Returned(MultiOps) /\ ~BadData(call) /\ TitlesGiven(call)
     /\ \A i \in 1..call.args.l : 20 + TitleLength(call, i) + Len(before.pstyle) < TmpSize)
        => /\ nplots = before.nplots + call.args.l
           /\ out # <<>>
           /\ Occurrences(out[1].text, ClauseOpening) = call.args.l
           /\ Occurrences(out[1].text, ClauseJoined) = call.args.l - 1

\* C4, amended: a multi-series call with valid data and l >= 1 either sends
\* nothing and leaves the plot count, or raises the plot count by l and
\* sends a header of l clauses joined by ", "; with a title array whose
\* every clause fits tmp, it sends nothing exactly when the whole header has
\* HeaderLimit characters or more.
C4_CountAndClauses ==
    (Returned(MultiOps) /\ ~BadData(call))
        => /\ \/ out = <<>> /\ nplots = before.nplots
              \/ /\ out # <<>>
                 /\ nplots = before.nplots + call.args.l
                 /\ Occurrences(out[1].text, ClauseOpening) = call.args.l
                 /\ Occurrences(out[1].text, ClauseJoined) = call.args.l - 1
           /\ (/\ TitlesGiven(call)
               /\ \A i \in 1..call.args.l : 20 + TitleLength(call, i) + Len(before.pstyle) < TmpSize)
                 => (out = <<>> <=> HeaderLength(call, before.nplots, before.pstyle) >= HeaderLimit)

\* three series sent by one call
C4_Witness ==
    /\ Returned(MultiOps) /\ ~BadData(call) /\ call.args.l = 3
    /\ out # <<>> /\ nplots = before.nplots + 3
    /\ Occurrences(out[1].text, ClauseJoined) = 2

\* C5: a valid gnuplot_plot_x or gnuplot_plot_xy call of n >= 1 samples
\* sends a header, n records and one line "e", and raises the plot count by
\* one; with no curve yet and the style "points" the header is
\* plot '-' title "<title>" with points.
C5_SingleSeries ==
    (Returned({"plot_x", "plot_xy"}) /\ ~BadData(call))
        => /\ Len(out) = call.args.n + 2
           /\ Verb(out[1].text) # "other"
           /\ \A i \in 2..(call.args.n + 1) : IsRecord(out[i].text, IF call.op = "plot_x" THEN 1 ELSE 2)
           /\ out[call.args.n + 2].text = <<"e">>
           /\ nplots = before.nplots + 1
           /\ (before.nplots = 0 /\ before.pstyle = <<"p", "o", "i", "n", "t", "s">>)
                 => out[1].text = <<"p", "l", "o", "t", " ", "'", "-", "'", " ", "t", "i", "t", "l", "e", " ", "\"">>
                                  \o (IF call.args.title = NULL THEN <<"(", "n", "o", "n", "e", ")">> ELSE call.args.title[1])
                                  \o <<"\"", " ", "w", "i", "t", "h", " ", "p", "o", "i", "n", "t", "s">>

\* gnuplot_plot_xy of three samples titled "sq" on a new session
C5_Witness ==
    /\ Returned({"plot_xy"}) /\ ~BadData(call) /\ call.args.n = 3 /\ call.args.title = <<<<"s", "q">>>>
    /\ before.nplots = 0 /\ before.pstyle = <<"p", "o", "i", "n", "t", "s">>
    /\ Len(out) = 5 /\ nplots = 1

\* C6: a series call with a null data pointer or a count below one writes
\* nothing and leaves the plot count and the style.
C6_BadDataIsNoOp ==
    (Returned(SeriesOps) /\ BadData(call))
        => out = <<>> /\ nplots = before.nplots /\ pstyle = before.pstyle /\ session = "open"

\* gnuplot_plot_multi_xy with a null inner array, after a curve was plotted
C6_Witness ==
    /\ Returned({"plot_multi_xy"}) /\ call.args.x # NULL /\ call.args.y # NULL /\ call.args.n # NULL
    /\ call.args.l = 2 /\ call.args.y[1][1] = NULL
    /\ before.nplots > 0 /\ out = <<>> /\ nplots = before.nplots

\* C7: after gnuplot_close has returned, neither the handle nor the stream
\* is allocated.
C7_CloseReleasesAll == session = "closed" => (~heap /\ ~pipe)

\* C8: when popen fails, gnuplot_init returns no session and the handle it
\* had allocated is released.
C8_FailedInitReleases ==
    (Returned({"init"}) /\ call.args.mem /\ ~call.args.spawn)
        => session = "failed" /\ ~heap /\ ~pipe

\* gnuplot_init has returned NULL after popen failed
C8_Witness ==
    /\ Returned({"init"}) /\ call.args.mem /\ ~call.args.spawn
    /\ session = "failed" /\ Len(diag) > 0

\* C9: a multi-series call whose header, with its terminator, is longer than
\* buf returns with nothing sent and the plot count unchanged.
C9_LongHeaderAborts ==
    (/\ Returned(MultiOps) /\ ~BadData(call) /\ TitlesGiven(call)
     /\ HeaderLength(call, before.nplots, before.pstyle) + 1 > BufSize)
        => out = <<>> /\ nplots = before.nplots /\ session = "open"

\* the style names of the claim
ClaimedStyles ==
    {<<"l", "i", "n", "e", "s">>, <<"p", "o", "i", "n", "t", "s">>, <<"l", "i", "n", "e", "s", "p", "o", "i", "n", "t", "s">>,
     <<"i", "m", "p", "u", "l", "s", "e", "s">>, <<"d", "o", "t", "s">>, <<"s", "t", "e", "p", "s">>,
     <<"e", "r", "r", "o", "r", "b", "a", "r", "s">>, <<"b", "o", "x", "e", "s">>,
     <<"b", "o", "x", "e", "r", "r", "o", "r", "b", "a", "r", "s">>}

C11_NullTitleList ==
    (Returned(MultiOps) /\ ~BadData(call) /\ call.args.title = NULL)
        => /\ session = "open"
           /\ out # <<>>
           /\ Occurrences(out[1].text, <<"t", "i", "t", "l", "e", " ", "\"", "(", "n", "o", "n", "e", ")", "\"", " ", "w", "i", "t", "h", " ">>) = call.args.l

\* C12: gnuplot_plot_multi_xy with fewer titles than series returns with
\* nothing sent and the plot count unchanged.
C12_FewerTitlesRejected ==
    (/\ Returned({"plot_multi_xy"}) /\ ~BadData(call)
     /\ call.args.title # NULL /\ Len(call.args.title[1]) < call.args.l)
        => out = <<>> /\ nplots = before.nplots /\ session = "open"

EndsWith(s, p) == Len(s) >= Len(p) /\ SubSeq(s, Len(s) - Len(p) + 1, Len(s)) = p

SingleOps == {"plot_x", "plot_xy", "plot_slope", "plot_equation"}

\* C13: the header of a single-curve call ends with title "<text>" with
\* <style>, where <text> is (none) for a null title and the title as given
\* otherwise.
C13_SingleTitle ==
    (Returned(SingleOps) /\ out # <<>>)
        => EndsWith(out[1].text,
                    <<" ", "t", "i", "t", "l", "e", " ", "\"">>
                    \o (IF call.args.title = NULL THEN <<"(", "n", "o", "n", "e", ")">> ELSE call.args.title[1])
                    \o <<"\"", " ", "w", "i", "t", "h", " ">> \o before.pstyle)

\* gnuplot_plot_slope with a null title
C13_Witness ==
    /\ Returned({"plot_slope"}) /\ call.args.title = NULL /\ out # <<>>
    /\ Occurrences(out[1].text, <<"\"", "(", "n", "o", "n", "e", ")", "\"">>) = 1

\* a number as "%.18e" prints one, from position i of text on
IsLongNumberAt(text, i) ==
    /\ Len(text) >= i + 23
    /\ text[i] \in Digits /\ text[i + 1] = "."
    /\ \A k \in (i + 2)..(i + 19) : text[k] \in Digits
    /\ text[i + 20] = "e" /\ text[i + 21] = "+"
    /\ text[i + 22] \in Digits /\ text[i + 23] \in Digits

\* C14: gnuplot_plot_slope and gnuplot_plot_equation send one line and no
\* more: the verb, the expression (a * x + b, or the equation as passed)
\* where a series header has '-', then the title; the plot count grows by 1.
C14_ExpressionOnly ==
    Returned({"plot_slope", "plot_equation"})
        => /\ Len(out) = 1
           /\ nplots = before.nplots + 1
           /\ Verb(out[1].text) # "other"
           /\ Occurrences(out[1].text, <<"'", "-", "'">>) = 0
           /\ LET text == out[1].text
                  at == IF Verb(text) = "plot" THEN 6 ELSE 8
                  title == <<" ", "t", "i", "t", "l", "e", " ", "\"">>
              IN IF call.op = "plot_equation"
                 THEN SubSeq(text, at, at + Len(call.args.equation) + 7) = call.args.equation \o title
                 ELSE /\ IsLongNumberAt(text, at)
                      /\ SubSeq(text, at + 24, at + 30) = <<" ", "*", " ", "x", " ", "+", " ">>
                      /\ IsLongNumberAt(text, at + 31)
                      /\ SubSeq(text, at + 55, at + 62) = title

\* gnuplot_plot_equation of sin(x) as the first curve, as in the test
C14_Witness ==
    /\ Returned({"plot_equation"}) /\ before.nplots = 0 /\ nplots = 1 /\ Len(out) = 1
    /\ StartsWith(out[1].text, <<"p", "l", "o", "t", " ", "s", "i", "n", "(", "x", ")", " ">>)

\* the curves named in the lines sent: every curve has one title
CurvesSent == IF out = <<>> THEN 0 ELSE Occurrences(out[1].text, <<" ", "t", "i", "t", "l", "e", " ", "\"">>)

\* C15: while the session is open, the plot count is not negative and is
\* the number of curves whose headers were sent since gnuplot_init or the
\* last gnuplot_resetplot: curves counts them from the lines sent, a plot
\* call adding the curves of its header, a reset starting again from 0, any
\* other call leaving the number.
C15_CountIsCurves ==
    /\ session = "open" => (nplots >= 0 /\ nplots = curves)
    /\ (pc = "returned" /\ session = "open")
          => curves = CASE call.op \in PlotOps -> before.curves + CurvesSent
                        [] call.op \in {"init", "resetplot"} -> 0
                        [] OTHER -> before.curves

\* four curves counted after a single curve and a call of three series
C15_Witness ==
    /\ Returned({"plot_x_multi_y"}) /\ session = "open" /\ call.args.l = 3
    /\ before.nplots = 1 /\ nplots = 4 /\ curves = 4 /\ CurvesSent = 3

\* the number of records of series i of a multi-series call
SeriesLength(c, i) == IF c.op = "plot_multi_xy" THEN c.args.n[1][i] ELSE c.args.n

\* the line of out that comes before the block of series i
RECURSIVE BlockStart(_, _)
BlockStart(c, i) == IF i = 1 THEN 1 ELSE BlockStart(c, i - 1) + SeriesLength(c, i - 1) + 1

\* C16: what a multi-series call sends is one header line, then for the
\* series 1..l in order its records (n of them, n[i] for
\* gnuplot_plot_multi_xy) and one line "e"; l lines "e" in all, a header
\* nowhere but in the first line.
C16_BlocksInOrder ==
    (Returned(MultiOps) /\ out # <<>>)
        => /\ Len(out) = BlockStart(call, call.args.l + 1)
           /\ Verb(out[1].text) # "other"
           /\ \A i \in 1..call.args.l :
                 /\ \A j \in 1..SeriesLength(call, i) :
                       IsRecord(out[BlockStart(call, i) + j].text, IF call.op = "plot_multi_x" THEN 1 ELSE 2)
                 /\ out[BlockStart(call, i + 1)].text = <<"e">>
           /\ Cardinality({k \in 1..Len(out) : out[k].text = <<"e">>}) = call.args.l
           /\ Cardinality({k \in 1..Len(out) : Verb(out[k].text) # "other"}) = 1

\* gnuplot_plot_multi_xy with series of one, two and three points: ten
\* lines
C16_Witness ==
    /\ Returned({"plot_multi_xy"}) /\ out # <<>> /\ call.args.l = 3
    /\ call.args.n = <<<<1, 2, 3>>>> /\ Len(out) = 10
    /\ out[3].text = <<"e">> /\ out[6].text = <<"e">> /\ out[10].text = <<"e">>

\* C17: of the lines a series call sends after its header, the records are
\* written without a flush and each line "e" with one, so that nothing
\* written is left unflushed at the return.
C17_FlushAtMarkerOnly ==
    (Returned(SeriesOps) /\ out # <<>>)
        => \A k \in 2..Len(out) : out[k].flushed <=> out[k].text = <<"e">>

\* C18: gnuplot_resetplot sets the plot count to 0 and nothing else: style
\* and multiplot flag are as before, nothing is written, the session stays
\* open with its handle and stream.
C18_ResetOnlyCount ==
    Returned({"resetplot"})
        => /\ nplots = 0
           /\ pstyle = before.pstyle /\ multiplot = before.multiplot
           /\ out = <<>>
           /\ session = "open" /\ heap /\ pipe

\* a reset with curves plotted, the style "lines" and multiplot on
C18_Witness ==
    /\ Returned({"resetplot"}) /\ before.nplots > 0 /\ nplots = 0
    /\ pstyle = <<"l", "i", "n", "e", "s">> /\ multiplot = "on" /\ out = <<>>

\* C19: while the session is open the style is one of the nine names; it is
\* "points" after gnuplot_init and after a gnuplot_setstyle with another
\* name, and no other function changes it; every clause of a header sent
\* ends with the style the session had when the call was made.
C19_StyleEverywhere ==
    /\ session = "open" => pstyle \in ClaimedStyles
    /\ (Returned({"init"}) /\ session = "open") => pstyle = <<"p", "o", "i", "n", "t", "s">>
    /\ (Returned({"setstyle"}) /\ call.args.plot_style \notin ClaimedStyles) => pstyle = <<"p", "o", "i", "n", "t", "s">>
    /\ (pc = "returned" /\ call.op \notin {"init", "setstyle"}) => pstyle = before.pstyle
    /\ (Returned(PlotOps) /\ out # <<>>)
          => LET with == <<"\"", " ", "w", "i", "t", "h", " ">> \o before.pstyle
             IN /\ EndsWith(out[1].text, with)
                /\ Occurrences(out[1].text, with \o <<",">>) = CurvesSent - 1

\* three clauses "with linespoints" in one header
C19_Witness ==
    /\ Returned(MultiOps) /\ out # <<>> /\ call.args.l = 3
    /\ before.pstyle = <<"l", "i", "n", "e", "s", "p", "o", "i", "n", "t", "s">>
    /\ Occurrences(out[1].text, <<"\"", " ", "w", "i", "t", "h", " ", "l", "i", "n", "e", "s", "p", "o", "i", "n", "t", "s">>) = 3

\* C20: gnuplot_set_xlabel and gnuplot_set_ylabel send one flushed line,
\* set xlabel "<text>" or set ylabel "<text>" with the text as passed, and
\* leave the plot count, the curves counted and the style.
C20_LabelLine ==
    Returned({"set_xlabel", "set_ylabel"})
        => /\ out = <<[text |-> <<"s", "e", "t", " ", (IF call.op = "set_xlabel" THEN "x" ELSE "y"), "l", "a", "b", "e", "l", " ", "\"">>
                                \o call.args.label \o <<"\"">>,
                       flushed |-> TRUE]>>
           /\ nplots = before.nplots /\ curves = before.curves /\ pstyle = before.pstyle
           /\ fresh = before.fresh
           /\ session = "open"

\* set ylabel "%d" between two plot calls
C20_Witness ==
    /\ Returned({"set_ylabel"}) /\ call.args.label = <<"%", "d">> /\ before.nplots = 1 /\ nplots = 1
    /\ out[1].text = <<"s", "e", "t", " ", "y", "l", "a", "b", "e", "l", " ", "\"", "%", "d", "\"">>

\* C21: a multi-series call, whatever its arguments, either writes nothing
\* and leaves the plot count, or writes the header of l clauses and after
\* it the l blocks, each with its records and its line "e", and adds l to
\* the plot count.
C21_AllOrNothing ==
    Returned(MultiOps)
        => \/ out = <<>> /\ nplots = before.nplots
           \/ /\ ~BadData(call)
              /\ nplots = before.nplots + call.args.l
              /\ Len(out) = BlockStart(call, call.args.l + 1)
              /\ Verb(out[1].text) # "other" /\ CurvesSent = call.args.l
              /\ \A i \in 1..call.args.l :
                    /\ \A k \in (BlockStart(call, i) + 1)..(BlockStart(call, i + 1) - 1) : out[k].text # <<"e">>
                    /\ out[BlockStart(call, i + 1)].text = <<"e">>

\* a call of MaxFill - 1 series whose header is too long returns with
\* nothing written, after a curve was plotted
C21_Witness ==
    /\ Returned(MultiOps) /\ ~BadData(call) /\ TitlesGiven(call) /\ call.args.l = MaxFill - 1
    /\ HeaderLength(call, before.nplots, before.pstyle) >= HeaderLimit
    /\ before.nplots = 1 /\ nplots = 1 /\ out = <<>> /\ session = "open"

\* C22: while a multi-series call builds its header, no write exceeds its
\* local buffers: the text of a clause, with its terminator, never exceeds
\* the 128 bytes of tmp, and the accumulated header, the first clause
\* included, never exceeds the 2048 bytes of buf.
C22_WritesWithinBuffers ==
    Returned(MultiOps) => written.buf <= BufSize /\ written.tmp <= TmpSize

\* the text of title i of call c, "(none)" for a null entry
TitleText(c, i) ==
    IF c.args.title[1][i] = NULL THEN <<"(", "n", "o", "n", "e", ")">> ELSE c.args.title[1][i][1]

\* clauses i..l of the header of call c, each "'-' title "<title>" with
\* <style>", joined by ", "
RECURSIVE ClausesFrom(_, _, _)
ClausesFrom(c, i, style) ==
    ClauseOpening \o TitleText(c, i) \o <<"\"", " ", "w", "i", "t", "h", " ">> \o style
    \o (IF i < c.args.l THEN <<",", " ">> \o ClausesFrom(c, i + 1, style) ELSE <<>>)

\* the header text of call c made with plot count count and style style
HeaderText(c, count, style) ==
    (IF count > 0 THEN <<"r", "e", "p", "l", "o", "t">> ELSE <<"p", "l", "o", "t">>)
    \o <<" ">> \o ClausesFrom(c, 1, style)

\* C23: the header line a multi-series call sends is, character for
\* character, the header text made of its titles and the style, whatever
\* the titles contain, a '%' included, as a single-series call sends its
\* title verbatim.
C23_HeaderVerbatim ==
    (Returned(MultiOps) /\ ~BadData(call) /\ TitlesGiven(call) /\ out # <<>>)
        => out[1].text = HeaderText(call, before.nplots, before.pstyle)

\* C24: a multi-series call only reads the series it is passed: when it
\* has returned, the caller's title array holds the values it held before
\* the call, a null entry being still null.
C24_TitlesUntouched ==
    (Returned(MultiOps) /\ TitlesGiven(call)) => written.title = call.args.title

====
